---- MODULE Spec2Model ----
(***************************************************************************)
(* Model of src/crypto_tracker.py: class CryptoPriceTracker.               *)
(*                                                                         *)
(* One thread of control.  pc is its position; the positions are the       *)
(* blocking points of the code (the HTTP request, the two sleeps, the      *)
(* open and the write of the history file), so that a failure or a         *)
(* process crash can be placed between them.                               *)
(*                                                                         *)
(* JSON values: an object is a function from key strings to values, an     *)
(* optional number is <<>> (None / null) or <<v>>.  Prices are JSON        *)
(* numbers, as the price API documents them.                               *)
(***************************************************************************)
EXTENDS Integers, Sequences, FiniteSets, TLC

\* ---------------------------------------------------------------- bounds
MaxRetries == 1     \* 429 answers the server gives within one attempt

\* ------------------------------------------------------ program constants
DefaultRetryAfter == 60

None    == <<>>
Some(v) == <<v>>

DefaultCoin     == "bitcoin"
DefaultCurrency == "usd"
Coins      == {"bitcoin", "ethereum"}
Currencies == {"usd", "eur"}

\* ------------------------------------------------------------ input sets
Prices    == {100, 300}
Intervals == {-100, 0, 100, 300}
Durations == {-250, 0, 100, 250}

\* Retry-After header of a 429 answer: absent, or a header string (a
\* sequence of characters).
RetryAfterHeaders ==
  { None, Some(<<"1", "2">>), Some(<<"-", "1">>), Some(<<"s", "o", "o", "n">>) }

ErrorStatuses == {404}

\* f"{vs_currency}_market_cap" and f"{vs_currency}_24h_change"
MarketCapKey(cur) == IF cur = "usd" THEN "usd_market_cap" ELSE "eur_market_cap"
ChangeKey(cur)    == IF cur = "usd" THEN "usd_24h_change" ELSE "eur_24h_change"

\* The per-asset objects a 2xx answer can carry.
QuoteObjects ==
  {  [k \in {"usd"} |-> p] : p \in Prices }
  \cup { [k \in {"eur"} |-> p] : p \in Prices }
  \cup { [k \in {"usd", "eur"} |-> IF k = "usd" THEN p ELSE p + 1] : p \in Prices }
  \cup { [k \in {"usd", "usd_market_cap", "usd_24h_change"} |->
            IF k = "usd" THEN p ELSE IF k = "usd_market_cap" THEN 7 ELSE 0 - 3] : p \in Prices }
  \cup { [k \in {"eur", "eur_market_cap"} |-> IF k = "eur" THEN p ELSE 9] : p \in Prices }
  \cup { [k \in {} |-> 0] }

\* The JSON objects a 2xx answer can carry: keyed by asset identifier.
Bodies ==
  UNION { [ks -> QuoteObjects] : ks \in SUBSET Coins }

\* What requests.get can give: a transport error (no answer), or an answer
\* with a status, a Retry-After header and a body that is a JSON object or
\* text that is not JSON.
Responses ==
  { [kind |-> "neterr", status |-> 0, retry_after |-> None, json |-> FALSE, data |-> <<>>] }
  \cup { [kind |-> "http", status |-> 429, retry_after |-> h, json |-> FALSE, data |-> <<>>] :
            h \in RetryAfterHeaders }
  \cup { [kind |-> "http", status |-> s, retry_after |-> None, json |-> FALSE, data |-> <<>>] :
            s \in ErrorStatuses }
  \cup { [kind |-> "http", status |-> 200, retry_after |-> None, json |-> FALSE, data |-> <<>>] }
  \cup { [kind |-> "http", status |-> 200, retry_after |-> None, json |-> TRUE, data |-> d] :
            d \in Bodies }

\* ------------------------------------------------------- pure functions

\* int(s) of Python for a header string: an optional sign and decimal
\* digits give a number, anything else raises ValueError.
Digits == <<"0", "1", "2", "3", "4", "5", "6", "7", "8", "9">>
IsDigit(c)  == \E d \in 1..10 : Digits[d] = c
DigitVal(c) == (CHOOSE d \in 1..10 : Digits[d] = c) - 1

RECURSIVE DecimalValue(_)
DecimalValue(s) ==
  IF s = <<>> THEN 0
  ELSE 10 * DecimalValue(SubSeq(s, 1, Len(s) - 1)) + DigitVal(s[Len(s)])

AllDigits(s) == Len(s) > 0 /\ \A k \in 1..Len(s) : IsDigit(s[k])

PyInt(s) ==
  IF AllDigits(s) THEN [ok |-> TRUE, val |-> DecimalValue(s)]
  ELSE IF Len(s) > 1 /\ s[1] = "-" /\ AllDigits(Tail(s))
       THEN [ok |-> TRUE, val |-> 0 - DecimalValue(Tail(s))]
       ELSE [ok |-> FALSE, val |-> 0]

\* a default backoff of one second
RetryAfterShortDefault(h) ==
  IF h = None THEN [ok |-> TRUE, val |-> 1] ELSE PyInt(h[1])

\* int(response.headers.get('Retry-After', 60))
RetryAfter(h) ==
  IF h = None THEN [ok |-> TRUE, val |-> DefaultRetryAfter] ELSE PyInt(h[1])

\* a // b of Python for b # 0 (floor division)
PyFloorDiv(a, b) == IF b > 0 THEN a \div b ELSE (0 - a) \div (0 - b)

\* d.get(k)
Get(d, k) == IF k \in DOMAIN d THEN Some(d[k]) ELSE None

\* f"{x:,.2f}": prices are counted in thousandths of the currency unit and
\* the report shows the nearest hundredth (no price of the input sets lies
\* half-way between two hundredths).
Format2(x) == (x + 5) \div 10

\* a price that is rounded to hundredths before it is stored
PriceDataRounded(data, coin_id, vs_currency, ts) ==
  [ timestamp  |-> ts,
    price_usd  |-> 10 * Format2(data[coin_id][vs_currency]),
    market_cap |-> Get(data[coin_id], MarketCapKey(vs_currency)),
    change_24h |-> Get(data[coin_id], ChangeKey(vs_currency)) ]

\* The price_data dictionary built from a 2xx answer.
PriceData(data, coin_id, vs_currency, ts) ==
  [ timestamp  |-> ts,
    price_usd  |-> data[coin_id][vs_currency],
    market_cap |-> Get(data[coin_id], MarketCapKey(vs_currency)),
    change_24h |-> Get(data[coin_id], ChangeKey(vs_currency)) ]

\* ------------------------------------------------------ the history file
\* The text of the file is a sequence of tokens: "[", one token per
\* observation, "]".  A write that stops part-way leaves a prefix.
NoObs == [timestamp |-> 0, price_usd |-> 0, market_cap |-> None, change_24h |-> None]
OpenTok   == [tok |-> "[", obj |-> NoObs]
CloseTok  == [tok |-> "]", obj |-> NoObs]
ObjTok(o) == [tok |-> "obj", obj |-> o]

\* json.dump(h, f, indent=2): the text written for h
Dump(h) == <<OpenTok>> \o [k \in 1..Len(h) |-> ObjTok(h[k])] \o <<CloseTok>>

\* json.load(f) succeeds on a complete array text and raises otherwise
Parses(text) ==
  /\ Len(text) >= 2
  /\ text[1] = OpenTok
  /\ text[Len(text)] = CloseTok
  /\ \A k \in 2..(Len(text) - 1) : text[k].tok = "obj"

\* a reader that gives the array back to front
LoadReversed(text) == [k \in 1..(Len(text) - 2) |-> text[Len(text) - k].obj]

\* json.load(f): the array of a complete text
Load(text) == [k \in 1..(Len(text) - 2) |-> text[k + 1].obj]

NoFile == [exists |-> FALSE, text |-> <<>>]
FileOf(text) == [exists |-> TRUE, text |-> text]

Prefixes(s) == { SubSeq(s, 1, n) : n \in 0..Len(s) }
IsPrefix(s, t) == Len(s) <= Len(t) /\ SubSeq(t, 1, Len(s)) = s

\* Histories an earlier run of the program left in the file.
OldObs(k) == [timestamp |-> k, price_usd |-> 100 * k, market_cap |-> None, change_24h |-> None]
OldHistories == { <<OldObs(1)>>, <<OldObs(1), OldObs(2)>> }

\* Files the program can find at start: none, one a run wrote completely,
\* one a run was stopped writing.
InitFiles ==
  {NoFile}
  \cup { FileOf(Dump(h)) : h \in OldHistories }
  \cup { FileOf(SubSeq(Dump(<<OldObs(1)>>), 1, 2)) }

VARIABLES
  pc,             \* position of the thread
  exc,            \* the exception that escaped to the top level, "" if none
  price_history,  \* self.price_history
  file,           \* bitcoin_price_history.json
  clock,          \* datetime.now()
  inTrack,        \* the main script called track_price_changes
  coin_id, vs_currency,  \* arguments of the running fetch_price
  retries,        \* 429 answers within the running attempt
  retry_after,    \* local of fetch_price
  price_data,     \* local of fetch_price
  result,         \* what the last fetch_price returned: None or Some(price_data)
  interval, duration, num_checks, i,  \* arguments and locals of track_price_changes
  stats,          \* the summary statistics printed, None if none were
  log,            \* what the run did so far: load, requests, answers, sleeps, returns
  lastSaved,      \* None, or Some(price_history as of the last save that succeeded)
  atAppend,       \* None, or Some(the sequence the file held at the last append)
  crashedAt       \* the position at which the process was stopped, "" if it was not

vars == << pc, exc, price_history, file, clock, inTrack, coin_id, vs_currency,
           retries, retry_after, price_data, result, interval, duration, num_checks, i,
           stats, log, lastSaved, atAppend, crashedAt >>

\* The sequence of observations the file holds: None if there is no file
\* or its text does not parse.
Persisted(f) == IF f.exists /\ Parses(f.text) THEN Some(Load(f.text)) ELSE None

\* One entry of log: what happened (ev), in which pass of the loop of
\* track_price_changes (slot), for which request (coin, cur), and what the
\* entry is about: a number n (status, seconds, price of the answer, price
\* as printed in hundredths), a Retry-After
\* header hdr, the length len of price_history, whether the body was JSON
\* and had the asset key, an observation obs.
Ev(ev) ==
  [ ev |-> ev, slot |-> i, coin |-> coin_id, cur |-> vs_currency, n |-> 0, hdr |-> None,
    len |-> Len(price_history), json |-> FALSE, has |-> FALSE, obs |-> NoObs ]

Init ==
  /\ pc = "init"
  /\ exc = ""
  /\ price_history = <<>>
  /\ file \in InitFiles
  /\ clock = Len(Dump(<<>>)) + 1
  /\ inTrack = FALSE
  /\ coin_id = DefaultCoin
  /\ vs_currency = DefaultCurrency
  /\ retries = 0
  /\ retry_after = 0
  /\ price_data = NoObs
  /\ result = None
  /\ interval = 0
  /\ duration = 0
  /\ num_checks = 0
  /\ i = 0
  /\ stats = None
  /\ log = <<>>
  /\ lastSaved = Persisted(file)
  /\ atAppend = None
  /\ crashedAt = ""

\* ------------------------------------------------------------ operations

\* load_history that reads the file into a local and not into the history
LoadHistoryDiscarded(f, readable) == <<>>

\* load_history: the content of the file when the file exists, can be read
\* and parses; otherwise price_history stays as __init__ set it, empty.
LoadHistory(f, readable) ==
  IF f.exists /\ readable /\ Parses(f.text) THEN Load(f.text) ELSE <<>>

\* __init__, which ends with load_history.
Construct ==
  /\ pc = "init"
  /\ \E readable \in BOOLEAN :
       /\ price_history' = LoadHistory(file, readable)
       /\ log' = << [Ev(IF ~file.exists THEN "no_file"
                        ELSE IF readable THEN "read" ELSE "read_error")
                       EXCEPT !.len = Len(price_history')] >>
  /\ pc' = "idle"
  /\ UNCHANGED << exc, file, clock, inTrack, coin_id, vs_currency, retries,
                  retry_after, price_data, result, interval, duration, num_checks, i,
                  stats, lastSaved, atAppend, crashedAt >>

\* The main script calls fetch_price(c, v).
CallFetch ==
  /\ pc = "idle"
  /\ \E c \in Coins, v \in Currencies :
       /\ coin_id' = c
       /\ vs_currency' = v
  /\ pc' = "request"
  /\ UNCHANGED << exc, price_history, file, clock, inTrack, retries, retry_after,
                  price_data, result, interval, duration, num_checks, i, stats, log,
                  lastSaved, atAppend, crashedAt >>

\* An exception leaves fetch_price (and track_price_changes, which catches
\* nothing) and ends the script.
Raise(e, lg) ==
  /\ pc' = "raised"
  /\ exc' = e
  /\ log' = Append(lg, Ev("raise"))
  /\ result' = result

\* a loop that stops at the first check that returns None
AfterCheckStopOnFailure(res) ==
  IF res = None THEN "summary" ELSE IF i < num_checks - 1 THEN "wait" ELSE "summary"

\* Where track_price_changes goes when a check returned res: it sleeps
\* unless this was the last check.
AfterCheck(res) == IF i < num_checks - 1 THEN "wait" ELSE "summary"

\* fetch_price returns res: to the main script, which ends, or to the loop
\* of track_price_changes.
ReturnFrom(res, lg) ==
  /\ result' = res
  /\ log' = Append(lg, IF res = None
                       THEN [Ev("failed") EXCEPT !.len = Len(price_history')]
                       ELSE [Ev("succeeded") EXCEPT !.len = Len(price_history'),
                                                    !.obs = res[1],
                                                    !.n = Format2(res[1].price_usd)])
  /\ pc' = IF inTrack THEN AfterCheck(res) ELSE "done"
  /\ exc' = exc

\* a recursive call that drops its arguments: self.fetch_price()
RetryArgsDefault(c, v) == << DefaultCoin, DefaultCurrency >>

\* The arguments of the recursive call after a backoff.
RetryArgs(c, v) == << c, v >>

\* a test for a non-empty answer in place of the test for the key
HasAssetNonEmpty(data, c) == DOMAIN data # {}

\* coin_id in data
HasAsset(data, c) == c \in DOMAIN data

\* an insert at the front in place of the append
PrependObs(h, o) == <<o>> \o h

\* an append that runs twice
AppendObsTwice(h, o) == Append(Append(h, o), o)

\* self.price_history.append(price_data)
AppendObs(h, o) == Append(h, o)

\* an except clause that records an empty data point for the failed check
OnRequestExceptionRecord(h) == Append(h, NoObs)

\* except requests.exceptions.RequestException: it prints and returns None,
\* and leaves price_history h as it is.
OnRequestException(h) == h

\* requests.get and what fetch_price does with the answer, up to the append.
FetchRequest ==
  /\ pc = "request"
  /\ clock' = clock + 1
  /\ \E r \in Responses :
       LET log0 == Append(log, Ev("request"))
           log1 == Append(log0, [Ev(IF r.kind = "neterr" THEN "neterr" ELSE "answer")
                                   EXCEPT !.n = r.status, !.hdr = r.retry_after,
                                          !.json = r.json, !.has = (coin_id \in DOMAIN r.data)])
       IN
       \/ /\ r.kind = "neterr"                        \* RequestException
          /\ price_history' = OnRequestException(price_history)
          /\ UNCHANGED << retries, retry_after, price_data, atAppend >>
          /\ ReturnFrom(None, log1)
       \/ /\ r.kind = "http" /\ r.status = 429
          /\ retries < MaxRetries
          /\ LET ra == RetryAfter(r.retry_after) IN
               IF ra.ok
               THEN /\ retry_after' = ra.val
                    /\ retries' = retries + 1
                    /\ pc' = "backoff"
                    /\ log' = log1
                    /\ UNCHANGED << exc, result >>
               ELSE /\ Raise("ValueError", log1)
                    /\ UNCHANGED << retries, retry_after >>
          /\ UNCHANGED << price_history, price_data, atAppend >>
       \/ /\ r.kind = "http" /\ r.status \in ErrorStatuses   \* raise_for_status
          /\ price_history' = OnRequestException(price_history)
          /\ UNCHANGED << retries, retry_after, price_data, atAppend >>
          /\ ReturnFrom(None, log1)
       \/ /\ r.kind = "http" /\ r.status = 200 /\ ~r.json
          \* response.json() raises: a RequestException in requests >= 2.27,
          \* a plain ValueError before
          /\ UNCHANGED << retries, retry_after, price_data, atAppend >>
          /\ \/ /\ price_history' = OnRequestException(price_history)
                /\ ReturnFrom(None, log1)
             \/ /\ price_history' = price_history
                /\ Raise("ValueError", log1)
       \/ /\ r.kind = "http" /\ r.status = 200 /\ r.json
          /\ IF ~HasAsset(r.data, coin_id)
             THEN /\ UNCHANGED << price_history, price_data, atAppend >>
                  /\ ReturnFrom(None, log1)
             ELSE IF coin_id \notin DOMAIN r.data \/ vs_currency \notin DOMAIN r.data[coin_id]
             THEN /\ Raise("KeyError", log1)      \* data[coin_id][vs_currency]
                  /\ UNCHANGED << price_history, price_data, atAppend >>
             ELSE /\ price_data' = PriceData(r.data, coin_id, vs_currency, clock')
                  /\ price_history' = AppendObs(price_history, price_data')
                  /\ atAppend' = Persisted(file)
                  /\ pc' = "save_open"
                  /\ log' = Append(log1, [Ev("append") EXCEPT
                                            !.n = r.data[coin_id][vs_currency],
                                            !.len = Len(price_history'),
                                            !.obs = price_data'])
                  /\ UNCHANGED << exc, result >>
          /\ UNCHANGED << retries, retry_after >>
  /\ UNCHANGED << file, inTrack, coin_id, vs_currency, interval, duration,
                  num_checks, i, stats, lastSaved, crashedAt >>

\* time.sleep(retry_after), then the recursive call.
Backoff ==
  /\ pc = "backoff"
  /\ IF retry_after < 0
     THEN /\ Raise("ValueError", log)
          /\ UNCHANGED << coin_id, vs_currency >>
     ELSE /\ log' = Append(log, [Ev("backoff") EXCEPT !.n = retry_after])
          /\ coin_id' = RetryArgs(coin_id, vs_currency)[1]
          /\ vs_currency' = RetryArgs(coin_id, vs_currency)[2]
          /\ pc' = "request"
          /\ UNCHANGED << exc, result >>
  /\ UNCHANGED << price_history, file, clock, inTrack, retries, retry_after,
                  price_data, interval, duration, num_checks, i, stats, lastSaved,
                  atAppend, crashedAt >>

\* an except clause that takes the unsaved observation out again
SaveFailedRollback(h) == SubSeq(h, 1, Len(h) - 1)

\* The except clause of save_history: it prints and leaves price_history h
\* as it is.
SaveFailed(h) == h

\* a save that writes the newest observation only
SavedTextNewest(h) == Dump(<< h[Len(h)] >>)

\* json.dump(self.price_history, f, indent=2): the whole history is written
SavedText(h) == Dump(h)

\* save_history, first half: open(self.history_file, 'w') empties the file,
\* or fails and leaves it as it was; the failure is caught, and fetch_price
\* prints and returns price_data.
SaveOpen ==
  /\ pc = "save_open"
  /\ \/ /\ file' = FileOf(<<>>)
        /\ pc' = "save_write"
        /\ UNCHANGED << exc, result, log, price_history >>
     \/ /\ file' = file
        /\ price_history' = SaveFailed(price_history)
        /\ ReturnFrom(Some(price_data), Append(log, Ev("save_failed")))
  /\ UNCHANGED << clock, inTrack, coin_id, vs_currency, retries,
                  retry_after, price_data, interval, duration, num_checks, i, stats,
                  lastSaved, atAppend, crashedAt >>

\* save_history, second half: json.dump writes the text; a failure stops it
\* part-way and is caught.  Then fetch_price prints and returns price_data.
SaveWrite ==
  /\ pc = "save_write"
  /\ \E t \in Prefixes(SavedText(price_history)) :
       /\ file' = FileOf(t)
       /\ IF t = SavedText(price_history)
          THEN /\ lastSaved' = Some(price_history)
               /\ price_history' = price_history
               /\ ReturnFrom(Some(price_data), Append(log, Ev("saved")))
          ELSE /\ lastSaved' = lastSaved
               /\ price_history' = SaveFailed(price_history)
               /\ ReturnFrom(Some(price_data), Append(log, Ev("save_failed")))
  /\ UNCHANGED << clock, inTrack, coin_id, vs_currency, retries,
                  retry_after, price_data, interval, duration, num_checks, i, stats,
                  atAppend, crashedAt >>

\* The main script calls track_price_changes(iv, du): num_checks and the
\* first check.
CallTrack ==
  /\ pc = "idle"
  /\ inTrack' = TRUE
  /\ \E iv \in Intervals, du \in Durations :
       /\ interval' = iv
       /\ duration' = du
       /\ IF iv = 0
          THEN /\ Raise("ZeroDivisionError", log)
               /\ UNCHANGED num_checks
          ELSE /\ num_checks' = PyFloorDiv(du, iv)
               /\ pc' = IF num_checks' > 0 THEN "request" ELSE "summary"
               /\ UNCHANGED << exc, result, log >>
  /\ UNCHANGED << price_history, file, clock, coin_id, vs_currency, retries, i, stats,
                  retry_after, price_data, lastSaved, atAppend, crashedAt >>

\* time.sleep(interval) between two checks, then the next check.
Wait ==
  /\ pc = "wait"
  /\ IF interval < 0
     THEN /\ Raise("ValueError", log)
          /\ UNCHANGED << i, retries >>
     ELSE /\ log' = Append(log, [Ev("wait") EXCEPT !.n = interval])
          /\ i' = i + 1
          /\ retries' = 0
          /\ pc' = "request"
          /\ UNCHANGED << exc, result >>
  /\ UNCHANGED << price_history, file, clock, inTrack, coin_id, vs_currency,
                  retry_after, price_data, interval, duration, num_checks, stats,
                  lastSaved, atAppend, crashedAt >>

RECURSIVE SumOf(_)
SumOf(s) == IF s = <<>> THEN 0 ELSE s[1] + SumOf(Tail(s))
MinOf(s) == CHOOSE x \in { s[k] : k \in 1..Len(s) } : \A k \in 1..Len(s) : x <= s[k]
MaxOf(s) == CHOOSE x \in { s[k] : k \in 1..Len(s) } : \A k \in 1..Len(s) : x >= s[k]

\* The summary statistics of a history; the average is the fraction
\* avg_num / avg_den.
StatisticsOf(prices) ==
  [ min_price |-> MinOf(prices),
    max_price |-> MaxOf(prices),
    avg_num   |-> SumOf(prices),
    avg_den   |-> Len(prices),
    range     |-> MaxOf(prices) - MinOf(prices) ]

\* statistics that leave the oldest data point out: prices[1:]
StatisticsTail(h) == StatisticsOf([k \in 1..(Len(h) - 1) |-> h[k + 1].price_usd])

\* prices = [entry["price_usd"] for entry in self.price_history] and the
\* statistics of them
Statistics(h) == StatisticsOf([k \in 1..Len(h) |-> h[k].price_usd])

\* statistics as soon as there is one data point
ReportsStatisticsAny(h) == Len(h) > 0

\* if len(self.price_history) > 1
ReportsStatistics(h) == Len(h) > 1

\* The end of track_price_changes: the statistics when there are at least
\* two data points.
Summary ==
  /\ pc = "summary"
  /\ stats' = IF ReportsStatistics(price_history)
              THEN Some(Statistics(price_history)) ELSE None
  /\ pc' = "done"
  /\ UNCHANGED << exc, price_history, file, clock, inTrack, coin_id, vs_currency, retries,
                  retry_after, price_data, result, interval, duration, num_checks, i,
                  log, lastSaved, atAppend, crashedAt >>

\* The process is stopped from outside between the append and the end of
\* save_history.  Stopped inside json.dump, the file holds what had reached
\* it: some prefix of the text.
Crash ==
  /\ pc \in {"save_open", "save_write"}
  /\ pc' = "crashed"
  /\ crashedAt' = pc
  /\ IF pc = "save_write"
     THEN \E t \in Prefixes(SavedText(price_history)) : file' = FileOf(t)
     ELSE file' = file
  /\ UNCHANGED << exc, price_history, clock, inTrack, coin_id, vs_currency,
                  retries, retry_after, price_data, result, interval, duration,
                  num_checks, i, stats, log, lastSaved, atAppend >>

Next ==
  \/ Construct
  \/ CallFetch
  \/ CallTrack
  \/ FetchRequest
  \/ Backoff
  \/ SaveOpen
  \/ SaveWrite
  \/ Wait
  \/ Summary
  \/ Crash

Spec == Init /\ [][Next]_vars

\* ---------------------------------------------------------------- claims

\* The requests of log that start a check: those that are not the reissue
\* after a backoff.
AttemptStarts == { k \in 1..Len(log) : log[k].ev = "request" /\ log[k - 1].ev # "backoff" }
WaitEvents    == { k \in 1..Len(log) : log[k].ev = "wait" }

\* The length price_history had when the check of entry k started.
StartLen(k) ==
  LET j == CHOOSE j \in AttemptStarts : j <= k /\ \A m \in AttemptStarts : m <= k => m <= j
  IN  log[j].len

TwelveSeconds == Some(<< "1", "2" >>)

\* C1: whenever no save is under way, the sequence the file holds is the
\* in-memory history as it was at the last save that succeeded.
C1_PersistedIsLastSave ==
  (pc \notin {"save_write", "crashed"} /\ lastSaved # None) => Persisted(file) = lastSaved

\* C2: after a crash between the append and the end of save_history, the
\* file still holds, in order and intact, every observation it held at the
\* append.
C2_CrashKeepsPersisted ==
  (pc = "crashed" /\ atAppend # None) =>
     (Persisted(file) # None /\ IsPrefix(atAppend[1], Persisted(file)[1]))

\* C3: a 429 answer with Retry-After "12" is followed by exactly one sleep
\* of 12 and then by the same request (same asset, same currency) in the
\* same pass of the loop; the pass number changes only across a wait that
\* follows a returned check, and then by one.
C3_BackoffThenSameRequest ==
  /\ \A k \in 1..Len(log) :
       (log[k].ev = "answer" /\ log[k].n = 429 /\ log[k].hdr = TwelveSeconds) =>
          /\ k + 1 <= Len(log) => (log[k + 1].ev = "backoff" /\ log[k + 1].n = 12)
          /\ k + 2 <= Len(log) =>
               /\ log[k + 2].ev = "request"
               /\ log[k + 2].coin = log[k - 1].coin
               /\ log[k + 2].cur = log[k - 1].cur
               /\ log[k + 2].slot = log[k - 1].slot
          /\ k = Len(log) => pc = "backoff"
  /\ \A k \in 1..(Len(log) - 1) :
       log[k + 1].slot # log[k].slot =>
          /\ log[k].ev = "wait"
          /\ log[k - 1].ev \in {"succeeded", "failed"}
          /\ log[k + 1].slot = log[k].slot + 1

C3_Witness ==
  \E k \in 1..Len(log) :
     /\ log[k].ev = "answer" /\ log[k].n = 429 /\ log[k].hdr = TwelveSeconds
     /\ k + 2 <= Len(log)
     /\ log[k].slot = 1

\* C4: when a call of track_price_changes with a positive interval and a
\* non-negative duration has ended, it has started duration // interval
\* checks, with one wait of interval between two checks and none after the
\* last.
C4_AttemptsAndWaits ==
  (inTrack /\ interval > 0 /\ duration >= 0 /\ pc \in {"done", "raised"}) =>
     /\ Cardinality(AttemptStarts) = duration \div interval
     /\ Cardinality(WaitEvents) = IF duration \div interval > 0
                                  THEN (duration \div interval) - 1 ELSE 0
     /\ \A k \in WaitEvents :
          /\ log[k].n = interval
          /\ log[k - 1].ev \in {"succeeded", "failed"}
          /\ k + 1 <= Len(log) /\ log[k + 1].ev = "request"

\* C5: inside track_price_changes with a positive interval, a check that
\* returns None leaves price_history as long as it was when the check
\* started, and is followed by the wait of interval and the first request
\* of the next pass when a pass is left, and by nothing more when none is.
C5_FailureConsumesSlot ==
  (inTrack /\ interval > 0) =>
     \A k \in 1..Len(log) :
        log[k].ev = "failed" =>
           /\ log[k].len = StartLen(k)
           /\ IF log[k].slot < num_checks - 1
              THEN /\ k = Len(log) => pc = "wait"
                   /\ k + 1 <= Len(log) => (log[k + 1].ev = "wait" /\ log[k + 1].n = interval)
                   /\ k + 2 <= Len(log) =>
                        (log[k + 2].ev = "request" /\ log[k + 2].slot = log[k].slot + 1)
              ELSE k = Len(log) /\ pc \in {"summary", "done"}

C5_Witness ==
  /\ inTrack
  /\ \E k \in 1..Len(log) :
        /\ log[k].ev = "failed"
        /\ k + 2 <= Len(log)
        /\ log[k + 2].ev = "request"

\* C6: no exception leaves fetch_price, load_history, save_history or
\* track_price_changes.
C6_NoErrorEscapes == pc # "raised" /\ exc = ""

\* C7: after a 2xx JSON answer without the requested asset key, fetch_price
\* returns None and price_history is as long as it was at the request.
C7_MissingAssetNoObservation ==
  \A k \in 1..Len(log) :
     (log[k].ev = "answer" /\ log[k].n = 200 /\ log[k].json /\ ~log[k].has) =>
        /\ k + 1 <= Len(log)
        /\ log[k + 1].ev = "failed"
        /\ log[k + 1].len = log[k - 1].len
        /\ k + 1 = Len(log) => (result = None /\ Len(price_history) = log[k - 1].len)

C7_Witness ==
  /\ Len(price_history) > 0
  /\ result = None
  /\ Len(log) > 1
  /\ LET k == Len(log) - 1 IN
       log[k].ev = "answer" /\ log[k].n = 200 /\ log[k].json /\ ~log[k].has

\* C8 as stated: an observation whose save failed is the last element of
\* price_history from then on.
C8_StaysLast ==
  \A k \in 1..Len(log) :
     log[k].ev = "save_failed" =>
        (Len(price_history) = log[k - 1].len /\ price_history[Len(price_history)] = log[k - 1].obs)

\* C8 amended: an observation whose save failed is the last element of
\* price_history when fetch_price returns, fetch_price returns it (nothing
\* is raised), and it keeps its place in price_history from then on.
C8_AppendRetained ==
  \A k \in 1..Len(log) :
     log[k].ev = "save_failed" =>
        /\ log[k - 1].ev = "append"
        /\ log[k - 1].len <= Len(price_history)
        /\ price_history[log[k - 1].len] = log[k - 1].obs
        /\ k + 1 <= Len(log)
        /\ log[k + 1].ev = "succeeded"
        /\ log[k + 1].obs = log[k - 1].obs
        /\ log[k + 1].len = log[k - 1].len
        /\ k + 1 = Len(log) =>
             (result = Some(log[k - 1].obs) /\ Len(price_history) = log[k - 1].len)

C8_Witness ==
  \E k \in 1..Len(log) :
     log[k].ev = "save_failed" /\ Len(price_history) > log[k - 1].len

\* C9: when the constructor has returned, price_history is the sequence the
\* file held if the file was read and held a complete sequence, and is
\* empty if there was no file, the read failed or the text did not parse.
C9_LoadOrEmpty ==
  pc = "idle" =>
     /\ exc = ""
     /\ IF log[1].ev = "read" /\ (\E h \in OldHistories : file.text = Dump(h))
        THEN price_history \in OldHistories /\ file.text = Dump(price_history)
        ELSE price_history = <<>>

C9_Witness ==
  pc = "idle" /\ file.exists /\ log[1].ev = "read" /\ ~Parses(file.text) /\ price_history = <<>>

\* C10: after startup every step leaves price_history a prefix of what it
\* becomes and adds at most one element; a check that returns an
\* observation has made it longer by one, a check that returns None or
\* raises has left its length as it was.
EndsAgree ==
  \A k \in 1..Len(log) :
     /\ log[k].ev = "succeeded" => log[k].len = StartLen(k) + 1
     /\ log[k].ev = "failed" => log[k].len = StartLen(k)
     /\ (log[k].ev = "raise" /\ log[k - 1].ev = "answer") => log[k].len = StartLen(k)

C10_AppendOnly ==
  [][ pc # "init" =>
        /\ IsPrefix(price_history, price_history')
        /\ Len(price_history') <= Len(price_history) + 1
        /\ EndsAgree' ]_vars

C10_Witness ==
  /\ pc = "done"
  /\ Len(price_history) = 3
  /\ \E k \in 1..Len(log) : log[k].ev = "failed"
  /\ \E k \in 1..Len(log) : log[k].ev = "succeeded"

\* The sum of the first n prices of h.
RECURSIVE TotalUpTo(_, _)
TotalUpTo(h, n) == IF n = 0 THEN 0 ELSE TotalUpTo(h, n - 1) + h[n].price_usd

\* C11: the statistics reported are the least and the greatest price, the
\* mean and the difference of greatest and least over every element of
\* price_history, those loaded at start included; for the prices
\* 100, 200, 300 they are 100, 300, 200 and 200.
C11_StatisticsOfWholeHistory ==
  (pc = "done" /\ stats # None) =>
     LET s == stats[1]
         n == Len(price_history)
         P == { price_history[k].price_usd : k \in 1..n }
     IN  /\ s.min_price \in P /\ \A x \in P : s.min_price <= x
         /\ s.max_price \in P /\ \A x \in P : s.max_price >= x
         /\ s.range = s.max_price - s.min_price
         /\ s.avg_den = n
         /\ s.avg_num = TotalUpTo(price_history, n)
         /\ [k \in 1..n |-> price_history[k].price_usd] = << 100, 200, 300 >> =>
               /\ s.min_price = 100
               /\ s.max_price = 300
               /\ s.avg_num = 200 * s.avg_den
               /\ s.range = 200

C11_Witness ==
  /\ pc = "done"
  /\ stats # None
  /\ log[1].len = 2
  /\ [k \in 1..Len(price_history) |-> price_history[k].price_usd] = << 100, 200, 300 >>

\* C12: a 429 answer without a Retry-After header is followed by a sleep of
\* exactly 60 and then by the request again.
C12_DefaultBackoff ==
  \A k \in 1..Len(log) :
     (log[k].ev = "answer" /\ log[k].n = 429 /\ log[k].hdr = None) =>
        /\ k = Len(log) => (pc = "backoff" /\ retry_after = 60)
        /\ k + 1 <= Len(log) => (log[k + 1].ev = "backoff" /\ log[k + 1].n = 60)
        /\ k + 2 <= Len(log) => log[k + 2].ev = "request"

C12_Witness ==
  \E k \in 1..Len(log) :
     /\ log[k].ev = "answer" /\ log[k].n = 429 /\ log[k].hdr = None
     /\ k + 2 <= Len(log)

\* The save of the running fetch_price has just succeeded.
JustSaved == Len(log) >= 2 /\ log[Len(log) - 1].ev = "saved"

C14_StoredPriceIsSourcePrice ==
  \A k \in 1..Len(log) :
     log[k].ev = "append" =>
        /\ log[k].obs.price_usd = log[k].n
        /\ log[k].len <= Len(price_history)
        /\ price_history[log[k].len].price_usd = log[k].n
        /\ (k + 2 = Len(log) /\ log[k + 1].ev = "saved") => Persisted(file) # None
        /\ (k + 1 <= Len(log) /\ log[k + 1].ev = "saved" /\ Persisted(file) # None) =>
              Persisted(file)[1][log[k].len].price_usd = log[k].n

\* a saved observation whose printed price is not its stored price
C14_Witness ==
  \E k \in 1..Len(log) :
     /\ log[k].ev = "append"
     /\ k + 2 <= Len(log)
     /\ log[k + 1].ev = "saved"
     /\ log[k + 2].ev = "succeeded"
     /\ 10 * log[k + 2].n # log[k].n
     /\ Persisted(file) # None

\* C15: when track_price_changes has returned, statistics were reported
\* exactly if price_history holds at least two observations, whoever put
\* them there.
C15_StatisticsIffTwo ==
  (pc = "done" /\ inTrack) => (stats # None <=> Len(price_history) >= 2)

\* statistics after a call that made no check at all
C15_Witness ==
  /\ pc = "done"
  /\ inTrack
  /\ num_checks <= 0
  /\ AttemptStarts = {}
  /\ stats # None

\* The last two entries of lg are a transport failure and the return of
\* None: no answer at all, or a status that is neither 2xx nor 429.
EndsInTransportFailure(lg) ==
  /\ Len(lg) >= 2
  /\ lg[Len(lg)].ev = "failed"
  /\ \/ lg[Len(lg) - 1].ev = "neterr"
     \/ lg[Len(lg) - 1].ev = "answer" /\ lg[Len(lg) - 1].n \notin {200, 429}

\* C16: the step of a check that ends in a transport failure, and every
\* step of a 429 answer and of a backoff before it, leaves price_history and
\* the file as they were.
C16_TransportFailureChangesNothing ==
  [][ ( \/ pc = "request" /\ EndsInTransportFailure(log')
        \/ pc = "request" /\ pc' = "backoff"
        \/ pc = "backoff" )
      => (price_history' = price_history /\ file' = file) ]_vars

\* a transport failure after a backoff, with a history to lose
C16_Witness ==
  /\ EndsInTransportFailure(log)
  /\ Len(log) >= 4
  /\ log[Len(log) - 3].ev = "backoff"
  /\ Len(price_history) > 0
  /\ file.exists

\* The entries of log that are answers of the server (or the lack of one).
AnswerEvents == { k \in 1..Len(log) : log[k].ev \in {"answer", "neterr"} }

\* The server has answered, and its last answer was not a 429.
LastAnswerNot429 ==
  /\ AnswerEvents # {}
  /\ LET a == CHOOSE a \in AnswerEvents : \A b \in AnswerEvents : b <= a
     IN  log[a].n # 429

\* C17: a call of track_price_changes (positive interval, non-negative
\* duration) that has stopped after an answer other than 429 has stopped at
\* the summary, after exactly num_checks checks; and as long as the last
\* answer is a 429 the running check has not returned.
C17_TerminatesAtSummary ==
  /\ (inTrack /\ interval > 0 /\ duration >= 0 /\ pc \in {"done", "raised"} /\ LastAnswerNot429) =>
        (pc = "done" /\ Cardinality(AttemptStarts) = num_checks)
  /\ pc = "backoff" =>
        \A k \in 1..Len(log) : log[k].slot = i => log[k].ev \notin {"succeeded", "failed"}

\* C18: right after a save that succeeded the file holds the whole
\* price_history, and with it, each at its place, the observations whose
\* own save had failed.
C18_SaveCatchesUp ==
  JustSaved =>
     /\ Persisted(file) = Some(price_history)
     /\ \A k \in 1..Len(log) :
          log[k].ev = "save_failed" =>
             Persisted(file)[1][log[k - 1].len] = log[k - 1].obs

C18_Witness ==
  /\ JustSaved
  /\ \E k \in 1..Len(log) : log[k].ev = "save_failed"

EventsOf(evs)       == { k \in 1..Len(log) : log[k].ev \in evs }
EventsIn(evs, slot) == { k \in EventsOf(evs) : log[k].slot = slot }

\* C19: in one check there is at most one append and at most one save,
\* exactly one append if the check returned an observation and none if it
\* returned None; price_history is longer than it was after the load by the
\* number of appends, which between checks is the number of checks that
\* returned an observation and is at most num_checks.
C19_OneAppendPerFetch ==
  pc # "init" =>
     /\ \A sl \in { log[k].slot : k \in 1..Len(log) } :
          /\ Cardinality(EventsIn({"append"}, sl)) <= 1
          /\ Cardinality(EventsIn({"saved", "save_failed"}, sl)) <= 1
          /\ Cardinality(EventsIn({"succeeded", "failed"}, sl)) <= 1
          /\ EventsIn({"succeeded"}, sl) # {} => Cardinality(EventsIn({"append"}, sl)) = 1
          /\ EventsIn({"failed"}, sl) # {} => EventsIn({"append"}, sl) = {}
     /\ Len(price_history) = log[1].len + Cardinality(EventsOf({"append"}))
     /\ pc \notin {"save_open", "save_write", "crashed"} =>
          Cardinality(EventsOf({"append"})) = Cardinality(EventsOf({"succeeded"}))
     /\ inTrack => Cardinality(EventsOf({"succeeded"})) <= (IF num_checks > 0 THEN num_checks ELSE 0)

\* two checks that returned an observation, one of them after a backoff
C19_Witness ==
  /\ pc = "done"
  /\ inTrack
  /\ Cardinality(EventsOf({"succeeded"})) = 2
  /\ EventsOf({"backoff"}) # {}
  /\ log[1].len > 0

====
